---- MODULE Spec2Model ----
(***************************************************************************)
(* The tokenizer (class Lexer), the debug dump (print_tokens) and the      *)
(* text reconstructor (GrowingLineBuffer, tokens_to_src) of src/python.py. *)
(*                                                                         *)
(* A character is a one-character string; a text is a sequence of          *)
(* characters.  Python's 0-based src[pos] is src[pos + 1] here.            *)
(***************************************************************************)
EXTENDS Integers, Sequences, FiniteSets, TLC

VARIABLES
    input,         \* the text handed to the first Lexer(src)
    lexer,         \* the Lexer object: src, pos, line, col, line_start, col_start, char, tokens
    pc,            \* where the call of lex() stands
    chars,         \* lex_string's local list `chars`
    start_char,    \* lex_string's parameter
    pass,          \* 1: scanning the input, 2: scanning the reconstructed text
    first_tokens,  \* the token stream the first scan returned
    out,           \* the result of tokens_to_src, once called
    printed        \* what print_tokens wrote, once called

vars == <<input, lexer, pc, chars, start_char, pass, first_tokens, out, printed>>

----------------------------------------------------------------------------
(* Bounds of the checked inputs *)

MaxLen == 5        \* texts over CoreAlphabet have at most this many characters
MaxShort == 2      \* texts over FullAlphabet have at most this many characters
MaxSpaces == 9     \* longest run of leading spaces in the indentation probes
MaxOverrun == 2    \* iterations of a loop that runs past the end of the text

----------------------------------------------------------------------------
(* Static data *)

EOF == "EOF"

\* Python's None, for a lookahead character and for a token's instance
None == "None"
NoInstance == <<None>>

KEYWORDS ==
   << <<"i", "f">>,
      <<"e", "l", "s", "e">>,
      <<"e", "l", "i", "f">>,
      <<"m", "a", "t", "c", "h">>,
      <<"c", "a", "s", "e">>,
      <<"f", "o", "r">>,
      <<"w", "h", "i", "l", "e">>,
      <<"i", "s">>,
      <<"a", "s">>,
      <<"d", "e", "f">>,
      <<"c", "l", "a", "s", "s">>,
      <<"r", "e", "t", "u", "r", "n">>,
      <<"f", "r", "o", "m">>,
      <<"i", "m", "p", "o", "r", "t">>,
      <<"N", "o", "n", "e">>,
      <<"T", "r", "u", "e">>,
      <<"F", "a", "l", "s", "e">>,
      <<"p", "r", "i", "n", "t">>,
      <<"w", "i", "t", "h">>,
      <<"o", "p", "e", "n">>,
      <<"i", "n", "t">>,
      <<"f", "l", "o", "a", "t">>,
      <<"s", "t", "r">>,
      <<"r", "e", "p", "r">>,
      <<"l", "e", "n">>,
      <<"r", "a", "n", "g", "e">>,
      <<"e", "n", "u", "m", "e", "r", "a", "t", "e">>,
      <<"m", "a", "x">>,
      <<"m", "i", "n">>,
      <<"s", "e", "l", "f">>,
      <<"a", "s", "s", "e", "r", "t">>,
      <<"r", "a", "i", "s", "e">>,
      <<"E", "x", "c", "e", "p", "t", "i", "o", "n">>,
      <<"S", "y", "n", "t", "a", "x", "E", "r", "r", "o", "r">>,
      <<"_", "_", "n", "a", "m", "e", "_", "_">> >>

Letters ==
    {"a", "b", "c", "d", "e", "f", "g", "h", "i", "j", "k", "l", "m",
     "n", "o", "p", "q", "r", "s", "t", "u", "v", "w", "x", "y", "z",
     "A", "B", "C", "D", "E", "F", "G", "H", "I", "J", "K", "L", "M",
     "N", "O", "P", "Q", "R", "S", "T", "U", "V", "W", "X", "Y", "Z"}

Digits == {"0", "1", "2", "3", "4", "5", "6", "7", "8", "9"}

\* str.isalpha(): true of the three-letter sentinel 'EOF' as well
isalpha(c) == c \in Letters \/ c = EOF

\* str.isnumeric()
isnumeric(c) == c \in Digits

----------------------------------------------------------------------------
(* Token, and the Lexer's cursor *)

Token(line, col, kind, instance) ==
    [line |-> line, col |-> col, kind |-> kind, instance |-> instance]

\* Lexer.__init__; exc is the exception the call of lex() has raised, if any
NewLexer(src) ==
    [src |-> src, pos |-> 0, line |-> 1, col |-> 1,
     line_start |-> 1, col_start |-> 1,
     char |-> IF src # <<>> THEN src[1] ELSE EOF,
     tokens |-> <<>>, exc |-> None]

push_token(s, kind, instance) ==
    [s EXCEPT !.tokens = Append(@, Token(s.line_start, s.col_start, kind, instance))]

\* a plausible slip: the newline branch resets the column and forgets the line
eat_line_not_advanced(s) ==
    LET newline == s.char = "\n"
    IN  [s EXCEPT !.pos = s.pos + 1,
                  !.col = IF newline THEN 1 ELSE s.col + 1,
                  !.line_start = IF newline THEN s.line ELSE @,
                  !.col_start = IF newline THEN 1 ELSE @,
                  !.char = IF s.pos + 1 < Len(s.src) THEN s.src[s.pos + 2] ELSE EOF]

eat(s) ==
    LET newline == s.char = "\n"
        line == IF newline THEN s.line + 1 ELSE s.line
    IN  [s EXCEPT !.pos = s.pos + 1,
                  !.line = line,
                  !.col = IF newline THEN 1 ELSE s.col + 1,
                  !.line_start = IF newline THEN line ELSE @,
                  !.col_start = IF newline THEN 1 ELSE @,
                  !.char = IF s.pos + 1 < Len(s.src) THEN s.src[s.pos + 2] ELSE EOF]

peek(s) == IF s.pos + 1 < Len(s.src) THEN s.src[s.pos + 2] ELSE None

\* an exception already raised unwinds the rest of the handler
eat_expecting(s, expectation) ==
    IF s.exc # None THEN s
    ELSE IF s.char # expectation THEN [s EXCEPT !.exc = "AssertionError"]
    ELSE eat(s)

syntax_error_on_char(s) == [s EXCEPT !.exc = "SyntaxError: Unexpected char"]

\* lines 168-169: the snapshot lex() takes at the top of every iteration
Snapshot(s) == [s EXCEPT !.line_start = s.line, !.col_start = s.col]

----------------------------------------------------------------------------
(* Token kinds.  A fixed-text kind is its symbol, as a text; each of the six *)
(* instance kinds is a one-element sequence holding its tag.                 *)

instance_keyword == <<"instance_keyword">>
instance_string == <<"instance_string">>
instance_number == <<"instance_number">>
instance_name == <<"instance_name">>
instance_comment == <<"instance_comment">>
instance_indent == <<"instance_indent">>

----------------------------------------------------------------------------
(* The sub-scanners *)

\* `instance in KEYWORDS`
InKeywords(instance) == \E i \in DOMAIN KEYWORDS : KEYWORDS[i] = instance

RECURSIVE name_loop(_, _)
name_loop(s, cs) ==
    IF s.pos < Len(s.src) /\ (isalpha(s.char) \/ isnumeric(s.char) \/ s.char = "_")
    THEN name_loop(eat(s), Append(cs, s.char))
    ELSE <<s, cs>>

\* a plausible slip: a word that merely starts with a keyword counts as one
lex_name_or_keyword_prefix(s) ==
    LET r == name_loop(s, <<>>)
        instance == r[2]
        kind == IF \E i \in DOMAIN KEYWORDS :
                     /\ Len(KEYWORDS[i]) <= Len(instance)
                     /\ SubSeq(instance, 1, Len(KEYWORDS[i])) = KEYWORDS[i]
                THEN instance_keyword ELSE instance_name
    IN  push_token(r[1], kind, instance)

lex_name_or_keyword(s) ==
    LET r == name_loop(s, <<>>)
        instance == r[2]
        kind == IF InKeywords(instance) THEN instance_keyword ELSE instance_name
    IN  push_token(r[1], kind, instance)

RECURSIVE number_loop(_, _)
number_loop(s, cs) ==
    IF s.pos < Len(s.src) /\ (isnumeric(s.char) \/ s.char = ".")
    THEN number_loop(eat(s), Append(cs, s.char))
    ELSE <<s, cs>>

lex_number(s) ==
    LET r == number_loop(s, <<>>)
    IN  push_token(r[1], instance_number, r[2])

RECURSIVE comment_loop(_, _)
comment_loop(s, cs) ==
    IF s.pos < Len(s.src) /\ s.char # "\n"
    THEN comment_loop(eat(s), Append(cs, s.char))
    ELSE <<s, cs>>

lex_comment(s) ==
    LET r == comment_loop(eat_expecting(s, "#"), <<>>)
    IN  push_token(r[1], instance_comment, r[2])

RECURSIVE indentation_loop(_, _)
indentation_loop(s, num_spaces) ==
    IF s.char = " "
    THEN indentation_loop(eat(s), num_spaces + 1)
    ELSE <<s, num_spaces>>

RECURSIVE push_indents(_, _)
push_indents(s, num_indents) ==
    IF num_indents = 0 THEN s
    ELSE push_indents(push_token(s, instance_indent, NoInstance), num_indents - 1)

lex_indentation(s) ==
    LET r == indentation_loop(s, 0)
        num_spaces == r[2]
    IN  IF num_spaces % 4 # 0
        THEN [r[1] EXCEPT !.exc = "SyntaxError: Unexpected indent"]
        ELSE push_indents(r[1], num_spaces \div 4)

----------------------------------------------------------------------------
(* The debug dump *)

\* str.removeprefix('instance_') on a kind
removeprefix_instance(kind) ==
    IF kind = instance_keyword THEN <<"keyword">>
    ELSE IF kind = instance_string THEN <<"string">>
    ELSE IF kind = instance_number THEN <<"number">>
    ELSE IF kind = instance_name THEN <<"name">>
    ELSE IF kind = instance_comment THEN <<"comment">>
    ELSE IF kind = instance_indent THEN <<"indent">>
    ELSE kind

\* Token.__repr__, as the sequence of its pieces
repr(token) ==
    IF token.instance = NoInstance
    THEN IF token.kind = instance_indent THEN <<"indent">> ELSE token.kind
    ELSE removeprefix_instance(token.kind) \o <<"(">> \o token.instance \o <<")">>

RECURSIVE tokens_on_line(_, _)
tokens_on_line(tokens, line) ==
    IF tokens = <<>> THEN <<>>
    ELSE IF Head(tokens).line = line
         THEN <<Head(tokens)>> \o tokens_on_line(Tail(tokens), line)
         ELSE tokens_on_line(Tail(tokens), line)

\* ' '.join(repr(token) for token in tokens_on_line)
RECURSIVE join_reprs(_)
join_reprs(ts) ==
    IF ts = <<>> THEN <<>>
    ELSE IF Len(ts) = 1 THEN repr(ts[1])
    ELSE repr(ts[1]) \o <<" ">> \o join_reprs(Tail(ts))

RECURSIVE max_line(_)
max_line(tokens) ==
    IF Len(tokens) = 1 THEN tokens[1].line
    ELSE LET m == max_line(Tail(tokens))
         IN  IF tokens[1].line > m THEN tokens[1].line ELSE m

\* the lines print_tokens writes; max() of no tokens raises ValueError
print_tokens(tokens) ==
    IF tokens = <<>> THEN [raised |-> "ValueError", lines |-> <<>>]
    ELSE [raised |-> None,
          lines |-> [line \in 1..max_line(tokens) |->
                        join_reprs(tokens_on_line(tokens, line))]]

----------------------------------------------------------------------------
(* The reconstructor *)

RECURSIVE Repeat(_, _)
Repeat(x, n) == IF n <= 0 THEN <<>> ELSE <<x>> \o Repeat(x, n - 1)

\* GrowingLineBuffer.insert on _data; rows and columns are 1-based here
insert(data, line, col, cs) ==
    LET grown == data \o Repeat(<<>>, line + 1 - Len(data))
        row == grown[line]
        padded == row \o Repeat(" ", col - 1 + Len(cs) - Len(row))
        written == [i \in 1..Len(padded) |->
                       IF i >= col /\ i < col + Len(cs) THEN cs[i - col + 1]
                       ELSE padded[i]]
    IN  [grown EXCEPT ![line] = written]

\* GrowingLineBuffer.__str__: '\n'.join(''.join(line) for line in _data)
RECURSIVE buffer_str(_)
buffer_str(data) ==
    IF data = <<>> THEN <<>>
    ELSE IF Len(data) = 1 THEN data[1]
    ELSE data[1] \o <<"\n">> \o buffer_str(Tail(data))

\* the match of tokens_to_src
content(token) ==
    IF token.kind = instance_comment THEN <<"#">> \o token.instance
    ELSE IF token.kind = instance_indent THEN <<" ", " ", " ", " ">>
    ELSE IF token.instance = NoInstance THEN token.kind
    ELSE token.instance

RECURSIVE insert_all(_, _)
insert_all(data, tokens) ==
    IF tokens = <<>> THEN data
    ELSE insert_all(insert(data, tokens[1].line, tokens[1].col, content(tokens[1])),
                    Tail(tokens))

tokens_to_src(tokens) == buffer_str(insert_all(<<>>, tokens))

----------------------------------------------------------------------------
(* The checked inputs *)

CoreAlphabet == {"\n", " ", "a", "'", "-", "="}

FullAlphabet ==
    {"\n", " ", "\t", "a", "_", "1", ".", "'", "\"", "#", "$",
     "=", "%", "+", "*", "/", "-", ">", "<", ":", "!",
     "|", "{", "}", "[", "]", "(", ")", ","}

Texts(alphabet, n) == UNION {[1..k -> alphabet] : k \in 0..n}

\* a leading character, nothing or one character after it, between two names
OperatorProbes ==
    {<<"a">> \o <<lead>> \o next \o <<"b">> :
        lead \in {"=", "%", "+", "*", "/", "-", ">", "<", ":", "!"},
        next \in {<<>>, <<"=">>, <<">">>, <<"*">>, <<"/">>}}

\* k leading spaces on the first line, on a later line, before a name or not
IndentationProbes ==
    {before \o Repeat(" ", k) \o after :
        before \in {<<>>, <<"\n">>, <<"a", "\n">>},
        k \in 0..MaxSpaces,
        after \in {<<>>, <<"a">>, <<"\n", "a">>, <<"#">>}}

\* every keyword, alone and with a character added or removed
KeywordProbes ==
    UNION {{KEYWORDS[i],
            KEYWORDS[i] \o <<"_">>,
            KEYWORDS[i] \o <<"1">>,
            <<"_">> \o KEYWORDS[i],
            SubSeq(KEYWORDS[i], 1, Len(KEYWORDS[i]) - 1),
            KEYWORDS[i] \o <<" ">> \o KEYWORDS[i] \o <<"_">>} : i \in DOMAIN KEYWORDS}
    \cup {<<"I", "f">>, <<"n", "o", "n", "e">>, <<"t", "r", "u", "e">>}

\* the texts the specification and the test name
Examples ==
    {<<"a", "-", ">", "b">>,
     <<"a", "-", "=", "b">>,
     <<"a", "!", "=", "b">>,
     <<"a", "!", "b">>,
     <<"1", "0">>,
     <<"1", ".", "2", ".", "3">>,
     <<"'", "h", "e", "l", "l", "o", " ", "w", "o", "r", "l", "d", "'">>,
     <<"p", "r", "i", "n", "t", "(", "'", "h", "e", "l", "l", "o", " ", "w", "o", "r", "l", "d", "'", ")">>,
     <<"c", "l", "a", "s", "s", " ", "A", ":", "\n", " ", " ", " ", " ", "d", "e", "f", " ", "f", "(", "s", "e", "l", "f", ",", " ", "x", ":", " ", "i", "n", "t", ")", " ", "-", ">", " ", "i", "n", "t", ":", "\n", " ", " ", " ", " ", " ", " ", " ", " ", "r", "e", "t", "u", "r", "n", " ", "x">>}

Inputs ==
    Texts(CoreAlphabet, MaxLen) \cup Texts(FullAlphabet, MaxShort)
    \cup OperatorProbes \cup IndentationProbes \cup KeywordProbes \cup Examples

----------------------------------------------------------------------------
(* lex(): one action for every arm of the match, taken at the loop head *)

\* tokens_to_src and print_tokens not called yet
Unset == <<None>>
NotPrinted == [raised |-> "not called", lines |-> <<>>]

Init ==
    /\ input \in Inputs
    /\ lexer = NewLexer(input)
    /\ pc = "lex"
    /\ chars = <<>>
    /\ start_char = None
    /\ pass = 1
    /\ first_tokens = <<>>
    /\ out = Unset
    /\ printed = NotPrinted

\* `while self.pos < len(self.src)` holds and `match self.char` takes the arm of c
AtChar(c) == pc = "lex" /\ lexer.pos < Len(lexer.src) /\ lexer.char = c

\* the arm ends: back to the loop head, or the exception leaves lex()
Finish(s) ==
    /\ lexer' = s
    /\ pc' = IF s.exc # None THEN "raised" ELSE "lex"
    /\ UNCHANGED <<input, chars, start_char, pass, first_tokens, out, printed>>

\* `case _: self.push_token(self.char); self.eat()`
Single(s) == eat(push_token(s, <<s.char>>, NoInstance))

\* `self.push_token(kind); self.eat_expecting(first); self.eat_expecting(second)`
Compound(s, kind, first, second) ==
    eat_expecting(eat_expecting(push_token(s, kind, NoInstance), first), second)

LexNewline ==
    /\ AtChar("\n")
    /\ Finish(lex_indentation(eat(Snapshot(lexer))))

LexSpace ==
    /\ AtChar(" ")
    /\ Finish(eat(Snapshot(lexer)))

LexEq ==
    /\ AtChar("=")
    /\ LET s == Snapshot(lexer)
       IN  Finish(IF peek(s) = "="
                  THEN Compound(s, <<"=", "=">>, "=", "=")
                  ELSE Single(s))

LexPercent ==
    /\ AtChar("%")
    /\ LET s == Snapshot(lexer)
       IN  Finish(IF peek(s) = "="
                  THEN Compound(s, <<"%", "=">>, "%", "=")
                  ELSE Single(s))

LexPlus ==
    /\ AtChar("+")
    /\ LET s == Snapshot(lexer)
       IN  Finish(IF peek(s) = "="
                  THEN Compound(s, <<"+", "=">>, "+", "=")
                  ELSE Single(s))

LexStar ==
    /\ AtChar("*")
    /\ LET s == Snapshot(lexer)
       IN  Finish(IF peek(s) = "*"
                  THEN Compound(s, <<"*", "*">>, "*", "*")
                  ELSE IF peek(s) = "="
                  THEN Compound(s, <<"*", "=">>, "*", "=")
                  ELSE Single(s))

LexSlash ==
    /\ AtChar("/")
    /\ LET s == Snapshot(lexer)
       IN  Finish(IF peek(s) = "/"
                  THEN Compound(s, <<"/", "/">>, "/", "/")
                  ELSE IF peek(s) = "="
                  THEN Compound(s, <<"/", "=">>, "/", "=")
                  ELSE Single(s))

LexMinus ==
    /\ AtChar("-")
    /\ LET s == Snapshot(lexer)
       IN  Finish(IF peek(s) = "="
                  THEN eat_expecting(push_token(s, <<"-", "=">>, NoInstance), "=")
                  ELSE IF peek(s) = ">"
                  THEN eat_expecting(eat(push_token(s, <<"-", ">">>, NoInstance)), ">")
                  ELSE Single(s))

LexGt ==
    /\ AtChar(">")
    /\ LET s == Snapshot(lexer)
       IN  Finish(IF peek(s) = "="
                  THEN Compound(s, <<">", "=">>, ">", "=")
                  ELSE Single(s))

LexLt ==
    /\ AtChar("<")
    /\ LET s == Snapshot(lexer)
       IN  Finish(IF peek(s) = "="
                  THEN Compound(s, <<"<", "=">>, "<", "=")
                  ELSE Single(s))

LexColon ==
    /\ AtChar(":")
    /\ LET s == Snapshot(lexer)
       IN  Finish(IF peek(s) = "="
                  THEN Compound(s, <<":", "=">>, ":", "=")
                  ELSE Single(s))

LexBang ==
    /\ AtChar("!")
    /\ LET s == Snapshot(lexer)
       IN  Finish(IF peek(s) = "="
                  THEN Compound(s, <<"!", "=">>, "!", "=")
                  ELSE syntax_error_on_char(s))

SingleChars == {"|", "{", "}", "[", "]", "(", ")", ".", ","}

LexSingle ==
    /\ \E c \in SingleChars : AtChar(c)
    /\ Finish(Single(Snapshot(lexer)))

\* lex_string up to its loop head: `chars = []; self.eat()`
LexQuote ==
    /\ \E c \in {"'", "\""} : AtChar(c)
    /\ lexer' = eat(Snapshot(lexer))
    /\ start_char' = lexer.char
    /\ chars' = <<>>
    /\ pc' = "lex_string"
    /\ UNCHANGED <<input, pass, first_tokens, out, printed>>

\* one iteration of `while self.char != start_char`; nothing in the code ends
\* the loop at the end of the text, where char stays EOF
LexStringChar ==
    /\ pc = "lex_string"
    /\ lexer.char # start_char
    /\ lexer.pos < Len(lexer.src) + MaxOverrun
    /\ chars' = Append(chars, lexer.char)
    /\ lexer' = eat(lexer)
    /\ UNCHANGED <<input, pc, start_char, pass, first_tokens, out, printed>>

\* the loop of lex_string ends: push the token, eat the closing quote
LexStringClose ==
    /\ pc = "lex_string"
    /\ lexer.char = start_char
    /\ chars' = <<>>
    /\ start_char' = None
    /\ LET instance == <<start_char>> \o chars \o <<start_char>>
           s == eat_expecting(push_token(lexer, instance_string, instance), start_char)
       IN  /\ lexer' = s
           /\ pc' = IF s.exc # None THEN "raised" ELSE "lex"
    /\ UNCHANGED <<input, pass, first_tokens, out, printed>>

\* lines 281-284: the arm of names and keywords stands before the arm of numbers
LexWord ==
    /\ pc = "lex" /\ lexer.pos < Len(lexer.src)
    /\ isalpha(lexer.char) \/ isnumeric(lexer.char) \/ lexer.char = "_"
    /\ LET s == Snapshot(lexer)
       IN  Finish(IF isalpha(s.char) \/ isnumeric(s.char) \/ s.char = "_"
                  THEN lex_name_or_keyword(s)
                  ELSE IF isnumeric(s.char) THEN lex_number(s)
                  ELSE s)

LexComment ==
    /\ AtChar("#")
    /\ Finish(lex_comment(Snapshot(lexer)))

Recognized ==
    {"\n", " ", "=", "%", "+", "*", "/", "-", ">", "<", ":", "!", "'", "\"", "#", "_"}
    \cup SingleChars \cup Letters \cup Digits

\* `case _: self.syntax_error_on_char()`
LexUnexpected ==
    /\ pc = "lex" /\ lexer.pos < Len(lexer.src)
    /\ lexer.char \notin Recognized
    /\ Finish(syntax_error_on_char(Snapshot(lexer)))

\* the loop condition fails: `return self.tokens`
LexReturn ==
    /\ pc = "lex"
    /\ lexer.pos >= Len(lexer.src)
    /\ pc' = "returned"
    /\ UNCHANGED <<input, lexer, chars, start_char, pass, first_tokens, out, printed>>

----------------------------------------------------------------------------
(* What a caller does with the returned stream, as main() does *)

PrintTokens ==
    /\ pc = "returned" /\ pass = 1
    /\ printed = NotPrinted
    /\ printed' = print_tokens(lexer.tokens)
    /\ UNCHANGED <<input, lexer, pc, chars, start_char, pass, first_tokens, out>>

TokensToSrc ==
    /\ pc = "returned" /\ pass = 1
    /\ out = Unset
    /\ out' = tokens_to_src(lexer.tokens)
    /\ UNCHANGED <<input, lexer, pc, chars, start_char, pass, first_tokens, printed>>

\* the reconstructed text is scanned in its turn: Lexer(src).lex() again
Rescan ==
    /\ pc = "returned" /\ pass = 1
    /\ out # Unset
    /\ first_tokens' = lexer.tokens
    /\ lexer' = NewLexer(out)
    /\ pc' = "lex"
    /\ pass' = 2
    /\ UNCHANGED <<input, chars, start_char, out, printed>>

Next ==
    \/ LexNewline \/ LexSpace
    \/ LexEq \/ LexPercent \/ LexPlus \/ LexStar \/ LexSlash \/ LexMinus
    \/ LexGt \/ LexLt \/ LexColon \/ LexBang
    \/ LexSingle
    \/ LexQuote \/ LexStringChar \/ LexStringClose
    \/ LexWord \/ LexComment \/ LexUnexpected
    \/ LexReturn
    \/ PrintTokens \/ TokensToSrc \/ Rescan

Spec == Init /\ [][Next]_vars

----------------------------------------------------------------------------
(* Vocabulary of the properties *)

\* the rows of a text: what str.split('\n') gives
RECURSIVE Rows(_)
Rows(text) ==
    IF \A i \in DOMAIN text : text[i] # "\n" THEN <<text>>
    ELSE LET n == CHOOSE i \in DOMAIN text :
                      text[i] = "\n" /\ \A j \in 1..(i - 1) : text[j] # "\n"
         IN  <<SubSeq(text, 1, n - 1)>> \o Rows(SubSeq(text, n + 1, Len(text)))

RECURSIVE LeadingSpaces(_)
LeadingSpaces(row) ==
    IF row # <<>> /\ row[1] = " " THEN 1 + LeadingSpaces(Tail(row)) ELSE 0

RECURSIVE RStrip(_)
RStrip(row) ==
    IF row # <<>> /\ row[Len(row)] = " " THEN RStrip(SubSeq(row, 1, Len(row) - 1))
    ELSE row

\* the index in text of the character at 1-based (line, col)
Offset(text, line, col) ==
    Cardinality({i \in DOMAIN text :
                    Cardinality({j \in 1..i : text[j] = "\n"}) < line - 1
                    \/ (text[i] = "\n"
                        /\ Cardinality({j \in 1..i : text[j] = "\n"}) = line - 1)})
    + col

IsWordChar(c) == c \in Letters \cup Digits \cup {"_"}

\* the longest run of word characters of text that starts at index o
RECURSIVE WordRun(_, _)
WordRun(text, o) ==
    IF o <= Len(text) /\ IsWordChar(text[o])
    THEN <<text[o]>> \o WordRun(text, o + 1) ELSE <<>>

\* the longest run of digits and dots of text that starts at index o
RECURSIVE NumberRun(_, _)
NumberRun(text, o) ==
    IF o <= Len(text) /\ text[o] \in Digits \cup {"."}
    THEN <<text[o]>> \o NumberRun(text, o + 1) ELSE <<>>

KeywordSet == {KEYWORDS[i] : i \in DOMAIN KEYWORDS}

\* a stream without its positions
KindsAndLiterals(tokens) ==
    [i \in DOMAIN tokens |-> <<tokens[i].kind, tokens[i].instance>>]

\* the stream the first scan built
FirstStream == IF pass = 1 THEN lexer.tokens ELSE first_tokens

Ended == pc \in {"returned", "raised"}

NoQuote(text) == \A i \in DOMAIN text : text[i] \notin {"'", "\""}

----------------------------------------------------------------------------
(* The properties *)

\* C1: a text of the supported subset (no tab, every line's leading spaces a
\* multiple of 4) that scans without fault is reproduced by tokens_to_src row
\* for row, up to spaces in columns no token occupied (trailing blanks).
Supported(text) ==
    /\ \A i \in DOMAIN text : text[i] # "\t"
    /\ \A r \in DOMAIN Rows(text) : LeadingSpaces(Rows(text)[r]) % 4 = 0

SameUpToBlanks(a, b) ==
    /\ Len(Rows(a)) = Len(Rows(b))
    /\ \A r \in DOMAIN Rows(a) : RStrip(Rows(a)[r]) = RStrip(Rows(b)[r])

C1_RoundTrip ==
    (out # Unset /\ Supported(input)) => SameUpToBlanks(input, out)

\* C2: scanning the reconstructed text ends without fault and gives the kinds
\* and literals of the first scan, in the same order.
C2_RescanSame ==
    (pass = 2 /\ Ended) =>
        /\ pc = "returned"
        /\ KindsAndLiterals(lexer.tokens) = KindsAndLiterals(first_tokens)

\* C3: every token stands at the (line, col) of the first character consumed
\* for it: the scanned text reads the token's text there, and the k-th indent
\* token of a line has col 4*(k-1)+1.
TokenTextAtPosition(t) ==
    LET o == Offset(lexer.src, t.line, t.col)
        n == Len(content(t))
    IN  /\ o + n - 1 <= Len(lexer.src)
        /\ SubSeq(lexer.src, o, o + n - 1) = content(t)

IndentColumn(i) ==
    LET t == lexer.tokens[i]
        k == 1 + Cardinality({j \in 1..(i - 1) :
                                 /\ lexer.tokens[j].kind = instance_indent
                                 /\ lexer.tokens[j].line = t.line})
    IN  t.kind = instance_indent => t.col = 4 * (k - 1) + 1

C3_TokenStart ==
    \A i \in DOMAIN lexer.tokens :
        TokenTextAtPosition(lexer.tokens[i]) /\ IndentColumn(i)

\* C4: between two names, a leading character followed by a valid continuation
\* gives one compound token; a leading character alone gives the bare token,
\* except '!', which is a fault unless '=' follows.
CompoundTable ==
    {<<"=", "=">>, <<"%", "=">>, <<"+", "=">>, <<"*", "*">>, <<"*", "=">>,
     <<"/", "/">>, <<"/", "=">>, <<"-", ">">>, <<"-", "=">>, <<">", "=">>,
     <<"<", "=">>, <<":", "=">>, <<"!", "=">>}

BetweenNames(symbol) ==
    <<<<instance_name, <<"a">>>>, <<symbol, NoInstance>>, <<instance_name, <<"b">>>>>>

C4_CompoundOperators ==
    (pass = 1 /\ Ended) =>
        /\ \A p \in CompoundTable :
              input = <<"a">> \o p \o <<"b">> =>
                  /\ pc = "returned"
                  /\ KindsAndLiterals(lexer.tokens) = BetweenNames(p)
        /\ \A c \in {"=", "%", "+", "*", "/", "-", ">", "<", ":"} :
              input = <<"a", c, "b">> =>
                  /\ pc = "returned"
                  /\ KindsAndLiterals(lexer.tokens) = BetweenNames(<<c>>)
        /\ input = <<"a", "!", "b">> =>
              /\ pc = "raised"
              /\ lexer.exc = "SyntaxError: Unexpected char"

\* C5: in a text without strings that lex() returns from, no line (the first
\* included) begins with 3, 5, 6 or 7 spaces, and a line that begins with 0, 4
\* or 8 spaces has exactly 0, 1 or 2 indent tokens.
IndentsOnLine(tokens, line) ==
    Cardinality({i \in DOMAIN tokens :
                    tokens[i].kind = instance_indent /\ tokens[i].line = line})

C5_Indentation ==
    (pass = 1 /\ pc = "returned" /\ NoQuote(input)) =>
        \A r \in DOMAIN Rows(input) :
            LET n == LeadingSpaces(Rows(input)[r])
            IN  /\ n \notin {3, 5, 6, 7}
                /\ n \in {0, 4, 8} => IndentsOnLine(lexer.tokens, r) = n \div 4

\* C6: the scan of a string never goes on past the end of the text: there the
\* call has ended with a fault.
C6_UnterminatedString ==
    ~(pc = "lex_string" /\ lexer.pos > Len(lexer.src))

\* C7: a token scanned from a digit on is a number token whose literal is the
\* whole run of digits and dots; '1.2.3' is the one token number(1.2.3).
C7_NumberTokens ==
    /\ \A i \in DOMAIN lexer.tokens :
          LET t == lexer.tokens[i]
          IN  (t.kind \in {instance_name, instance_keyword, instance_number}
               /\ t.instance[1] \in Digits) =>
                  /\ t.kind = instance_number
                  /\ t.instance = NumberRun(lexer.src, Offset(lexer.src, t.line, t.col))
    /\ (pass = 1 /\ pc = "returned" /\ input = <<"1", ".", "2", ".", "3">>) =>
          KindsAndLiterals(lexer.tokens) = <<<<instance_number, input>>>>

\* C8: the dump shows a string token as string(<text between the quotes>).
ExpectedRepr(t) ==
    IF t.kind = instance_string
    THEN <<"string", "(">> \o SubSeq(t.instance, 2, Len(t.instance) - 1) \o <<")">>
    ELSE repr(t)

RECURSIVE JoinExpected(_)
JoinExpected(ts) ==
    IF ts = <<>> THEN <<>>
    ELSE IF Len(ts) = 1 THEN ExpectedRepr(ts[1])
    ELSE ExpectedRepr(ts[1]) \o <<" ">> \o JoinExpected(Tail(ts))

C8_StringDump ==
    printed.raised = None =>
        \A l \in DOMAIN printed.lines :
            printed.lines[l] = JoinExpected(tokens_on_line(FirstStream, l))

\* C9: in every stream lex() returns, each token's (line, col) is at or after
\* the (line, col) of the token before it, in lexicographic order.
NotBefore(a, b) == a.line < b.line \/ (a.line = b.line /\ a.col <= b.col)

C9_PositionsMonotone ==
    pc = "returned" =>
        \A i \in 1..(Len(lexer.tokens) - 1) :
            NotBefore(lexer.tokens[i], lexer.tokens[i + 1])

\* a returned stream with a step to a later line, a step along a line, and a
\* string that spans a newline
C9_Witness ==
    /\ pc = "returned"
    /\ \E i \in 1..(Len(lexer.tokens) - 1) :
          lexer.tokens[i].line < lexer.tokens[i + 1].line
    /\ \E i \in 1..(Len(lexer.tokens) - 1) :
          /\ lexer.tokens[i].line = lexer.tokens[i + 1].line
          /\ lexer.tokens[i].col < lexer.tokens[i + 1].col
    /\ \E i \in DOMAIN lexer.tokens :
          /\ lexer.tokens[i].kind = instance_string
          /\ \E j \in DOMAIN lexer.tokens[i].instance : lexer.tokens[i].instance[j] = "\n"

\* C10: a token of kind name or keyword holds a maximal run of word characters
\* of the scanned text, and is a keyword exactly when that run is a member of
\* the keyword set; otherwise it is a name.
C10_KeywordClosure ==
    \A i \in DOMAIN lexer.tokens :
        LET t == lexer.tokens[i]
            o == Offset(lexer.src, t.line, t.col)
        IN  t.kind \in {instance_name, instance_keyword} =>
                /\ t.instance = WordRun(lexer.src, o)
                /\ o = 1 \/ ~IsWordChar(lexer.src[o - 1])
                /\ t.kind = instance_keyword <=> t.instance \in KeywordSet

\* a keyword token, and after it a name that only starts with a keyword
C10_Witness ==
    /\ pc = "returned"
    /\ \E i, j \in DOMAIN lexer.tokens :
          /\ lexer.tokens[i].kind = instance_keyword
          /\ lexer.tokens[j].kind = instance_name
          /\ \E k \in KeywordSet :
                /\ Len(k) < Len(lexer.tokens[j].instance)
                /\ SubSeq(lexer.tokens[j].instance, 1, Len(k)) = k

\* the characters of the text that the cursor has not consumed yet
Unread == IF lexer.pos < Len(lexer.src) THEN Len(lexer.src) - lexer.pos ELSE 0

\* C11: a call of lex() ends on every finite text.  The count of unread
\* characters is the measure of that: every step of the scan that does not
\* end it, by the return of the token stream or by a raised fault, leaves
\* fewer characters unread than it found.
C11_Termination ==
    [][(~Ended /\ ~Ended') => Unread' < Unread]_vars

\* C12: no text makes a call of eat_expecting(c) find a current character
\* other than c: the assertion of eat_expecting never fails during lex().
C12_CursorContract ==
    lexer.exc # "AssertionError"

====
